---- MODULE Spec2Model ----
(***************************************************************************)
(* The visitor service of aws-3tier-app/app/main.py: a relational store    *)
(* (table visitors) behind a cache-aside layer (Redis), served by          *)
(* concurrently scheduled request handlers.  Every await on the store or   *)
(* the cache is one step of the handler that issues it.                    *)
(***************************************************************************)
EXTENDS Integers, Sequences, FiniteSets, TLC

\* ------------------------------------------------------------------ bounds
NumProcs == 2       \* request handlers in flight at once
MaxReqs == 4        \* requests received in one behaviour
MaxRows == 6        \* rows of the stores SpecStats starts from
MaxCount == 2       \* largest visit_count of those rows
TickLen == 20       \* seconds that pass in one step of the clock of SpecTtl
MaxTicks == 6       \* steps of that clock in one behaviour

\* ------------------------------------------------------- program constants
CACHE_TTL == 60
TopLimit == 5
DefaultLimit == 10

None == "None"                \* Python None / SQL NULL
Missing == "<missing>"        \* a request body without the field
Pool == "pool"                \* a connected asyncpg pool
Client == "client"            \* a connected redis client

Procs == 1 .. NumProcs
Names == {"", "a"}             \* the names requests carry
ConcurrentNames == {"a"}       \* those of them used while handlers overlap
Messages == {None, "hi"}
Limits == {1, DefaultLimit}

\* --------------------------------------------------------- response bodies
\* the members of the dicts the handlers build, in the order they write them
VisitorFields == <<"id", "name", "message", "visit_time", "visit_count">>
TopFields == <<"name", "visits">>
StatsFields == <<"total_visitors", "total_visits", "last_visit",
                 "avg_visits_per_visitor", "top_visitors", "from_cache">>
VisitorCacheFields == VisitorFields \o <<"from_cache">>

\* ------------------------------------------------------------- cache keys
VisitorKey(name) == "visitor:" \o name
AllKey == "visitors:all"
StatsKey == "stats"
Keys == {VisitorKey(n) : n \in Names} \cup {AllKey, StatsKey}
\* variant: the statistics key is left out of the invalidation
InvalidationKeysSansStats(name) == <<VisitorKey(name), AllKey, AllKey>>
InvalidationKeys(name) == <<VisitorKey(name), AllKey, StatsKey>>

\* ------------------------------------------------------------ conversions
\* datetime.isoformat(): the timestamp as text
isoformat(t) == "T" \o ToString(t)

\* json.dumps of a dict: the text of an object, its members in insertion order
dumps_obj(d, fields) ==
    <<"{", [i \in 1 .. Len(fields) |-> <<fields[i], d[fields[i]]>>], "}">>
\* json.loads of an object's text: the dict of its members
loads_obj(text) ==
    LET members == text[2]
    IN  [k \in {members[i][1] : i \in DOMAIN members} |->
            members[CHOOSE i \in DOMAIN members : members[i][1] = k][2]]
\* json.dumps / json.loads of a list of dicts
dumps_list(xs, fields) ==
    <<"[", [i \in DOMAIN xs |-> dumps_obj(xs[i], fields)], "]">>
loads_list(text) == [i \in DOMAIN text[2] |-> loads_obj(text[2][i])]
\* json.dumps / json.loads of the statistics dict (top_visitors is a nested list)
dumps_stats(d) ==
    dumps_obj([d EXCEPT !["top_visitors"] = dumps_list(@, TopFields)], StatsFields)
loads_stats(text) ==
    [loads_obj(text) EXCEPT !["top_visitors"] = loads_list(@)]
\* `if cached:` on the text redis returns (decode_responses=True)
Truthy(text) == Len(text) > 0

\* the dict a handler builds from a row
VisitorDict(row) ==
    [name |-> row.name, id |-> row.id, message |-> row.message,
     visit_time |-> isoformat(row.visit_time), visit_count |-> row.visit_count]
VisitorCacheDict(row) ==
    [name |-> row.name, id |-> row.id, message |-> row.message,
     visit_time |-> isoformat(row.visit_time), visit_count |-> row.visit_count,
     from_cache |-> FALSE]

\* ---------------------------------------------------------- store queries
\* SELECT ... FROM visitors WHERE name = $1
RowsByName(S, name) == {r \in S : r.name = name}

\* INSERT INTO visitors (name, message): id from the SERIAL sequence,
\* visit_time DEFAULT NOW(), visit_count DEFAULT 1
NewRow(id, name, message, t) ==
    [name |-> name, id |-> id, message |-> message, visit_time |-> t,
     visit_count |-> 1]

\* variant: the UPDATE leaves visit_count as it was
UpdateRowsKeepCount(S, name, message, t) ==
    {IF r.name = name
        THEN [r EXCEPT !.message = message, !.visit_time = t]
        ELSE r : r \in S}
\* variant: the UPDATE keeps a message the row already has
UpdateRowsKeepMessage(S, name, message, t) ==
    {IF r.name = name
        THEN [r EXCEPT !.message = IF @ = None THEN message ELSE @,
                       !.visit_time = t, !.visit_count = @ + 1]
        ELSE r : r \in S}
\* UPDATE visitors SET message, visit_time = NOW(), visit_count + 1 WHERE name = $2
UpdateRows(S, name, message, t) ==
    {IF r.name = name
        THEN [r EXCEPT !.message = message, !.visit_time = t,
                       !.visit_count = @ + 1]
        ELSE r : r \in S}

\* DELETE FROM visitors WHERE name = $1
DeleteRows(S, name) == {r \in S : r.name # name}

Max(xs) == CHOOSE x \in xs : \A y \in xs : y <= x

\* ORDER BY <field> DESC LIMIT n: every order the store may return, rows with
\* equal keys in any order
RECURSIVE OrderByDescLimit(_, _, _)
OrderByDescLimit(S, field, n) ==
    IF n <= 0 \/ S = {} THEN {<<>>}
    ELSE LET top == Max({r[field] : r \in S})
         IN  UNION {{<<r>> \o rest : rest \in OrderByDescLimit(S \ {r}, field, n - 1)} :
                    r \in {x \in S : x[field] = top}}

RECURSIVE SumCounts(_)
SumCounts(S) ==
    IF S = {} THEN 0
    ELSE LET r == CHOOSE x \in S : TRUE IN r.visit_count + SumCounts(S \ {r})

\* variant: the quotient truncated to hundredths
Numeric2Truncated(num, den) == (100 * num) \div den
\* numeric(10,2): a quotient rounded to hundredths, half away from zero
\* (operands are non-negative here); the value is kept in hundredths
Numeric2(num, den) == (200 * num + den) \div (2 * den)

\* SELECT COUNT(*), COALESCE(SUM(visit_count), 0), MAX(visit_time),
\*        AVG(visit_count)::numeric(10,2) FROM visitors
Aggregate(S) ==
    [total_visitors |-> Cardinality(S),
     total_visits |-> SumCounts(S),
     last_visit |-> IF S = {} THEN <<>> ELSE <<Max({r.visit_time : r \in S})>>,
     avg_visits_per_visitor |->
         IF S = {} THEN <<>> ELSE <<Numeric2(SumCounts(S), Cardinality(S))>>]

\* the dict get_stats builds from the two query results
StatsDict(stats, top) ==
    [from_cache |-> FALSE,
     total_visitors |-> stats.total_visitors,
     total_visits |-> stats.total_visits,
     last_visit |-> IF stats.last_visit # <<>>
                       THEN isoformat(stats.last_visit[1]) ELSE None,
     avg_visits_per_visitor |->
         IF stats.avg_visits_per_visitor # <<>> /\ stats.avg_visits_per_visitor[1] # 0
            THEN stats.avg_visits_per_visitor[1] ELSE 0,
     top_visitors |-> [i \in DOMAIN top |->
                          [name |-> top[i].name, visits |-> top[i].visit_count]]]

\* -------------------------------------------------------------------- state
VARIABLES
    db_pool,        \* the global asyncpg pool, or None
    redis_client,   \* the global redis client, or None
    started,        \* the number of requests received so far
    store,          \* the rows of table visitors
    seq,            \* last value of the SERIAL sequence visitors_id_seq
    now,            \* the store clock NOW(): advances with each committed write
    cache,          \* redis: key -> [text, ttl], with the entry's history
    pc,             \* per handler: the await it is at
    req,            \* per handler: the request it serves
    loc,            \* per handler: its local variables
    res,            \* per handler: the response, once done
    trace,          \* per handler: the store and cache calls it has issued
    lastMiss        \* per key: the payload of the last finished miss, while nothing changed since

vars == <<db_pool, redis_client, started, store, seq, now, cache, pc, req, loc, res, trace,
          lastMiss>>

env == <<db_pool, redis_client>>

NoReq == [op |-> "none"]
NoLoc == <<>>
NoRes == [status |-> 0]


TypeOK ==
    /\ db_pool \in {None, Pool}
    /\ redis_client \in {None, Client}
    /\ seq \in Nat /\ now \in Nat
    /\ DOMAIN cache \subseteq Keys
    /\ \A p \in Procs : res[p].status \in {0, 200, 404, 422, 500, 503}

\* lifespan(): connect both pools (either may fail and stay None); the table
\* starts empty
Init ==
    /\ db_pool \in {None, Pool}
    /\ redis_client \in {None, Client}
    /\ started = 0
    /\ store = {}
    /\ seq = 0
    /\ now = 0
    /\ cache = <<>>
    /\ pc = [p \in Procs |-> "idle"]
    /\ req = [p \in Procs |-> NoReq]
    /\ loc = [p \in Procs |-> NoLoc]
    /\ res = [p \in Procs |-> NoRes]
    /\ trace = [p \in Procs |-> <<>>]
    /\ lastMiss = [k \in Keys |-> <<>>]

\* -------------------------------------------------------- redis primitives
CacheHas(k) == k \in DOMAIN cache
\* SETEX key ttl text: the entry lives for ttl seconds from now (age: the
\* time since it was set, history only)
Setex(c, k, ttl, text, orig) ==
    [x \in DOMAIN c \cup {k} |->
        IF x = k THEN [text |-> text, ttl |-> ttl, orig |-> orig,
                       stales |-> {}, pre |-> FALSE, preDeleted |-> FALSE,
                       age |-> 0]
        ELSE c[x]]
\* variant: the delete is acknowledged and removes nothing
DelNothing(c, k) == c
\* DEL key
Del(c, k) == [x \in DOMAIN c \ {k} |-> c[x]]

Outcome(ok) == IF ok THEN "ok" ELSE "raise"
Call(p, what, arg, ok) == Append(trace[p], <<what, arg, Outcome(ok)>>)
CacheRaised(p) == \E i \in DOMAIN trace[p] : trace[p][i][3] = "raise"

\* the keys whose delete the handler issued and saw succeed
Deleted(tr) ==
    {tr[i][2] : i \in {j \in DOMAIN tr : tr[j][1] = "cache.delete" /\ tr[j][3] = "ok"}}

\* the cache key a read request goes through
ReadKey(r) ==
    CASE r.op = "get_visitor" -> VisitorKey(r.name)
      [] r.op = "get_visitors" -> AllKey
      [] r.op = "get_stats" -> StatsKey
      [] OTHER -> None

\* ---------------------------------------------- bookkeeping (history only)
\* readers past their cache.get learn that the store changed under them
MarkMutated(L) ==
    [q \in Procs |->
        IF "since" \in DOMAIN L[q] THEN [L[q] EXCEPT !.since = "changed"] ELSE L[q]]
\* readers of key k past their cache.get learn that k expired
MarkExpired(L, k) ==
    [q \in Procs |->
        IF "since" \in DOMAIN L[q] /\ ReadKey(req[q]) = k
           THEN [L[q] EXCEPT !.since = "changed"] ELSE L[q]]
\* readers of key k past their cache.get learn that another request wrote k
MarkWritten(L, p, k) ==
    [q \in Procs |->
        IF q # p /\ "since" \in DOMAIN L[q] /\ ReadKey(req[q]) = k
              /\ L[q].since = "clean"
           THEN [L[q] EXCEPT !.since = "written"] ELSE L[q]]
\* what a hit records about the entry it returns
HitInfo(k) ==
    [orig |-> cache[k].orig,
     pre |-> cache[k].pre, preDeleted |-> cache[k].preDeleted,
     age |-> cache[k].age, miss |-> lastMiss[k],
     after |-> {q \in Procs : /\ pc[q] = "done" /\ res[q].status = 200
                              /\ req[q].op \in {"create_visitor", "delete_visitor"}
                              /\ k \in Deleted(trace[q])}]
\* handler p committed a mutation of `name`: the entries it finds under the
\* keys of that name were put before it
Committed(c, p, name) ==
    [k \in DOMAIN c |->
        IF k \in {VisitorKey(name), AllKey, StatsKey}
           THEN [c[k] EXCEPT !.stales = @ \cup {p}] ELSE c[k]]
\* handler p returns from its mutation: the entries put before it that are
\* still there, and those of them under a key in `deleted`
Returned(c, p, deleted) ==
    [k \in DOMAIN c |->
        IF p \in c[k].stales
           THEN [c[k] EXCEPT !.stales = @ \ {p}, !.pre = TRUE,
                             !.preDeleted = @ \/ k \in deleted]
           ELSE c[k]]
\* the finished miss of key k by p: remembered while nothing changed since
MissDone(p, k, payload, wrote) ==
    [lastMiss EXCEPT ![k] =
        IF loc[p].missed /\ loc[p].since # "changed"
           THEN <<payload, loc[p].since = "written">>
           ELSE IF wrote /\ @ # <<>> THEN <<@[1], TRUE>> ELSE @]
\* a mutation committed: no remembered miss is current any more
NoMisses == [k \in Keys |-> <<>>]

\* ------------------------------------------------ dependencies (Depends)
\* get_db then get_redis, then the body's validation
Unavailable ==
    IF db_pool = None THEN <<[status |-> 503, body |-> "Database unavailable"]>>
    ELSE IF redis_client = None
            THEN <<[status |-> 503, body |-> "Cache unavailable"]>>
    ELSE <<>>

\* VisitorCreate: name is a required str, message an optional str
VisitorCreate(body) == body.name # Missing

\* a request arrives: its dependencies are resolved and its body validated
\* before the handler runs
Enter(p, r, valid, first) ==
    /\ pc[p] = "idle"
    /\ started < MaxReqs
    /\ started' = started + 1
    /\ req' = [req EXCEPT ![p] = r]
    /\ IF Unavailable # <<>>
          THEN /\ pc' = [pc EXCEPT ![p] = "done"]
               /\ res' = [res EXCEPT ![p] = Unavailable[1]]
          ELSE IF ~valid
          THEN /\ pc' = [pc EXCEPT ![p] = "done"]
               /\ res' = [res EXCEPT ![p] = [status |-> 422, body |-> "validation error"]]
          ELSE /\ pc' = [pc EXCEPT ![p] = first]
               /\ UNCHANGED res
    /\ UNCHANGED <<env, store, seq, now, cache, loc, trace, lastMiss>>



\* ------------------------------------------------- the write path's ending
\* one cache.delete of the `# Invalidate cache` try block: the i-th key; a
\* raise leaves the block, and after the block the handler returns `response`
InvalidateStep(p, i, next, response) ==
    \E ok \in BOOLEAN :
        LET k == InvalidationKeys(req[p].name)[i]
            tr == Call(p, "cache.delete", k, ok)
        IN  /\ trace' = [trace EXCEPT ![p] = tr]
            /\ IF ok /\ next # "done"
                  THEN /\ pc' = [pc EXCEPT ![p] = next]
                       /\ cache' = Del(cache, k)
                       /\ UNCHANGED res
                  ELSE /\ pc' = [pc EXCEPT ![p] = "done"]
                       /\ cache' = Returned(IF ok THEN Del(cache, k) ELSE cache,
                                            p, Deleted(tr))
                       /\ res' = [res EXCEPT ![p] = response]
            /\ UNCHANGED <<env, started, store, seq, now, req, loc, lastMiss>>

\* ------------------------------------------------------- POST /visitors
create_visitor(p, names) ==
    \E n \in names \cup {Missing}, m \in Messages :
        Enter(p, [name |-> n, message |-> m, op |-> "create_visitor"],
              VisitorCreate([name |-> n, message |-> m]), "cv_select")

\* variant: the handler drops the name's entry before it writes the store
cv_selectInvalidating(p) ==
    /\ pc[p] = "cv_select"
    /\ loc' = [loc EXCEPT ![p] =
                  [existing |-> RowsByName(store, req[p].name) # {}]]
    /\ trace' = [trace EXCEPT ![p] =
                    Append(Call(p, "db.fetchrow", "SELECT", TRUE),
                           <<"cache.delete", VisitorKey(req[p].name), "ok">>)]
    /\ cache' = Del(cache, VisitorKey(req[p].name))
    /\ pc' = [pc EXCEPT ![p] = "cv_write"]
    /\ UNCHANGED <<env, started, store, seq, now, req, res, lastMiss>>

\* existing = await conn.fetchrow("SELECT id, visit_count ... WHERE name = $1")
cv_select(p) ==
    /\ pc[p] = "cv_select"
    /\ loc' = [loc EXCEPT ![p] =
                  [existing |-> RowsByName(store, req[p].name) # {}]]
    /\ trace' = [trace EXCEPT ![p] = Call(p, "db.fetchrow", "SELECT", TRUE)]
    /\ pc' = [pc EXCEPT ![p] = "cv_write"]
    /\ UNCHANGED <<env, started, store, seq, now, cache, req, res, lastMiss>>

\* if existing: UPDATE ... RETURNING, else: INSERT ... RETURNING; fetchrow
\* gives the first returned row, or None when the UPDATE matched no row
cv_update(p) ==
    LET S == UpdateRows(store, req[p].name, req[p].message, now + 1)
        hit == RowsByName(S, req[p].name)
    IN  /\ store' = S
        /\ seq' = seq
        /\ now' = IF hit = {} THEN now ELSE now + 1
        /\ trace' = [trace EXCEPT ![p] = Call(p, "db.fetchrow", "UPDATE", TRUE)]
        /\ \E result \in (IF hit = {} THEN {<<>>} ELSE {<<r>> : r \in hit}) :
              loc' = [IF hit = {} THEN loc ELSE MarkMutated(loc) EXCEPT ![p] =
                         [existing |-> TRUE, result |-> result, commit |-> now']]
        /\ cache' = IF hit = {} THEN cache ELSE Committed(cache, p, req[p].name)
        /\ lastMiss' = IF hit = {} THEN lastMiss ELSE NoMisses

\* variant: the id is the number of rows plus one, not the sequence's value
cv_insertCounted(p) ==
    LET row == NewRow(Cardinality(store) + 1, req[p].name, req[p].message, now + 1)
    IN  /\ store' = store \cup {row}
        /\ seq' = seq + 1
        /\ now' = now + 1
        /\ trace' = [trace EXCEPT ![p] = Call(p, "db.fetchrow", "INSERT", TRUE)]
        /\ loc' = [MarkMutated(loc) EXCEPT ![p] =
                      [existing |-> FALSE, result |-> <<row>>, commit |-> now']]
        /\ cache' = Committed(cache, p, req[p].name)
        /\ lastMiss' = NoMisses

cv_insert(p) ==
    LET row == NewRow(seq + 1, req[p].name, req[p].message, now + 1)
    IN  /\ store' = store \cup {row}
        /\ seq' = seq + 1
        /\ now' = now + 1
        /\ trace' = [trace EXCEPT ![p] = Call(p, "db.fetchrow", "INSERT", TRUE)]
        /\ loc' = [MarkMutated(loc) EXCEPT ![p] =
                      [existing |-> FALSE, result |-> <<row>>, commit |-> now']]
        /\ cache' = Committed(cache, p, req[p].name)
        /\ lastMiss' = NoMisses

cv_write(p) ==
    /\ pc[p] = "cv_write"
    /\ IF loc[p].existing THEN cv_update(p) ELSE cv_insert(p)
    /\ pc' = [pc EXCEPT ![p] = "cv_inv1"]
    /\ UNCHANGED <<env, started, req, res>>

\* return {"id": result["id"], ...}: None is not subscriptable
CreateResponse(result) ==
    IF result = <<>> THEN [status |-> 500, body |-> "TypeError"]
    ELSE [status |-> 200, body |-> VisitorDict(result[1])]

cv_inv1(p) ==
    /\ pc[p] = "cv_inv1"
    /\ InvalidateStep(p, 1, "cv_inv2", CreateResponse(loc[p].result))
cv_inv2(p) ==
    /\ pc[p] = "cv_inv2"
    /\ InvalidateStep(p, 2, "cv_inv3", CreateResponse(loc[p].result))
cv_inv3(p) ==
    /\ pc[p] = "cv_inv3"
    /\ InvalidateStep(p, 3, "done", CreateResponse(loc[p].result))

\* ------------------------------------------------ DELETE /visitors/{name}
delete_visitor(p, names) ==
    \E n \in names :
        Enter(p, [name |-> n, op |-> "delete_visitor"], TRUE, "dv_delete")

\* variant: the result of the DELETE is not looked at
DeleteOutcomeUnchecked(p, gone) ==
    /\ pc' = [pc EXCEPT ![p] = "dv_inv1"]
    /\ store' = DeleteRows(store, req[p].name)
    /\ now' = now + 1
    /\ loc' = [MarkMutated(loc) EXCEPT ![p] = [commit |-> now + 1]]
    /\ cache' = Committed(cache, p, req[p].name)
    /\ lastMiss' = NoMisses
    /\ UNCHANGED res

\* result = await conn.execute("DELETE ..."); "DELETE 0" raises 404
DeleteOutcome(p, gone) ==
    IF gone = {}
       THEN /\ pc' = [pc EXCEPT ![p] = "done"]
            /\ res' = [res EXCEPT ![p] = [status |-> 404, body |-> "not found"]]
            /\ UNCHANGED <<store, now, cache, loc, lastMiss>>
       ELSE /\ pc' = [pc EXCEPT ![p] = "dv_inv1"]
            /\ store' = DeleteRows(store, req[p].name)
            /\ now' = now + 1
            /\ loc' = [MarkMutated(loc) EXCEPT ![p] = [commit |-> now + 1]]
            /\ cache' = Committed(cache, p, req[p].name)
            /\ lastMiss' = NoMisses
            /\ UNCHANGED res

dv_delete(p) ==
    /\ pc[p] = "dv_delete"
    /\ trace' = [trace EXCEPT ![p] = Call(p, "db.execute", "DELETE", TRUE)]
    /\ DeleteOutcome(p, RowsByName(store, req[p].name))
    /\ UNCHANGED <<env, started, seq, req>>

DeleteResponse == [status |-> 200, body |-> "deleted"]

dv_inv1(p) ==
    /\ pc[p] = "dv_inv1"
    /\ InvalidateStep(p, 1, "dv_inv2", DeleteResponse)
dv_inv2(p) ==
    /\ pc[p] = "dv_inv2"
    /\ InvalidateStep(p, 2, "dv_inv3", DeleteResponse)
dv_inv3(p) ==
    /\ pc[p] = "dv_inv3"
    /\ InvalidateStep(p, 3, "done", DeleteResponse)


\* --------------------------------------------------- the read path's steps
\* variant: the cache.get outside any try: its raise fails the request
CacheGetUnguarded(p, k, hitbody, next) ==
    \E ok \in BOOLEAN :
        /\ trace' = [trace EXCEPT ![p] = Call(p, "cache.get", k, ok)]
        /\ IF ~ok
              THEN /\ pc' = [pc EXCEPT ![p] = "done"]
                   /\ res' = [res EXCEPT ![p] =
                                 [status |-> 500, body |-> "RedisError", hit |-> <<>>]]
                   /\ loc' = [loc EXCEPT ![p] = [row |-> <<>>]]
              ELSE IF CacheHas(k) /\ Truthy(cache[k].text)
              THEN /\ pc' = [pc EXCEPT ![p] = "done"]
                   /\ res' = [res EXCEPT ![p] =
                                 [status |-> 200, body |-> hitbody, hit |-> <<HitInfo(k)>>]]
                   /\ UNCHANGED loc
              ELSE /\ pc' = [pc EXCEPT ![p] = next]
                   /\ loc' = [loc EXCEPT ![p] =
                                 [since |-> "clean", missed |-> TRUE, getRaised |-> FALSE]]
                   /\ UNCHANGED res
        /\ UNCHANGED <<env, started, store, seq, now, cache, req, lastMiss>>

\* `# Try cache first`: cached = await cache.get(key); a hit returns
\* `hitbody`, a miss or a raise goes on to the store query
CacheGet(p, k, hitbody, next) ==
    \E ok \in BOOLEAN :
        /\ trace' = [trace EXCEPT ![p] = Call(p, "cache.get", k, ok)]
        /\ IF ok /\ CacheHas(k) /\ Truthy(cache[k].text)
              THEN /\ pc' = [pc EXCEPT ![p] = "done"]
                   /\ res' = [res EXCEPT ![p] =
                                 [status |-> 200, body |-> hitbody, hit |-> <<HitInfo(k)>>]]
                   /\ UNCHANGED loc
              ELSE /\ pc' = [pc EXCEPT ![p] = next]
                   /\ loc' = [loc EXCEPT ![p] =
                                 [since |-> "clean", missed |-> ok, getRaised |-> ~ok]]
                   /\ UNCHANGED res
        /\ UNCHANGED <<env, started, store, seq, now, cache, req, lastMiss>>

\* variant: the entry is given twice the time to live
CacheSetLong(p, k, text, orig, body) ==
    \E ok \in BOOLEAN :
        /\ trace' = [trace EXCEPT ![p] = Call(p, "cache.setex", k, ok)]
        /\ cache' = IF ok THEN Setex(cache, k, 2 * CACHE_TTL, text, orig) ELSE cache
        /\ loc' = IF ok THEN MarkWritten(loc, p, k) ELSE loc
        /\ lastMiss' = MissDone(p, k, orig, ok)
        /\ pc' = [pc EXCEPT ![p] = "done"]
        /\ res' = [res EXCEPT ![p] = [status |-> 200, body |-> body, hit |-> <<>>]]
        /\ UNCHANGED <<env, started, store, seq, now, req>>

\* `# Cache result`: await cache.setex(key, CACHE_TTL, json.dumps(value)), a
\* raise is logged; then the handler returns `body`
CacheSet(p, k, text, orig, body) ==
    \E ok \in BOOLEAN :
        /\ trace' = [trace EXCEPT ![p] = Call(p, "cache.setex", k, ok)]
        /\ cache' = IF ok THEN Setex(cache, k, CACHE_TTL, text, orig) ELSE cache
        /\ loc' = IF ok THEN MarkWritten(loc, p, k) ELSE loc
        /\ lastMiss' = MissDone(p, k, orig, ok)
        /\ pc' = [pc EXCEPT ![p] = "done"]
        /\ res' = [res EXCEPT ![p] = [status |-> 200, body |-> body, hit |-> <<>>]]
        /\ UNCHANGED <<env, started, store, seq, now, req>>

\* --------------------------------------------------- GET /visitors/{name}
get_visitor(p, names) ==
    \E n \in names :
        Enter(p, [name |-> n, op |-> "get_visitor"], TRUE, "gv_get")

\* variant: the hit is returned as it was stored, tagged from_cache = false
gv_getUntagged(p) ==
    /\ pc[p] = "gv_get"
    /\ CacheGet(p, VisitorKey(req[p].name),
                loads_obj(cache[VisitorKey(req[p].name)].text), "gv_query")

gv_get(p) ==
    /\ pc[p] = "gv_get"
    /\ CacheGet(p, VisitorKey(req[p].name),
                [loads_obj(cache[VisitorKey(req[p].name)].text)
                    EXCEPT !["from_cache"] = TRUE],
                "gv_query")

\* variant: the 404 is cached as well, as a record without id or visits
gv_queryCachingNotFound(p) ==
    /\ pc[p] = "gv_query"
    /\ IF RowsByName(store, req[p].name) = {}
          THEN LET nobody == VisitorCacheDict(NewRow(0, req[p].name, None, 0))
               IN  /\ trace' = [trace EXCEPT ![p] =
                                   Append(Call(p, "db.fetchrow", "SELECT", TRUE),
                                          <<"cache.setex", VisitorKey(req[p].name), "ok">>)]
                   /\ cache' = Setex(cache, VisitorKey(req[p].name), CACHE_TTL,
                                     dumps_obj(nobody, VisitorCacheFields), nobody)
                   /\ pc' = [pc EXCEPT ![p] = "done"]
                   /\ res' = [res EXCEPT ![p] =
                                 [status |-> 404, body |-> "not found", hit |-> <<>>]]
                   /\ loc' = [loc EXCEPT ![p] =
                                 [@ EXCEPT !.since = "changed"] @@ [row |-> <<>>]]
          ELSE /\ trace' = [trace EXCEPT ![p] = Call(p, "db.fetchrow", "SELECT", TRUE)]
               /\ pc' = [pc EXCEPT ![p] = "gv_set"]
               /\ \E row \in RowsByName(store, req[p].name) :
                     loc' = [loc EXCEPT ![p] = @ @@ [row |-> <<row>>]]
               /\ UNCHANGED <<res, cache>>
    /\ UNCHANGED <<env, started, store, seq, now, req, lastMiss>>

\* row = await conn.fetchrow("SELECT ... WHERE name = $1"); no row raises 404
gv_query(p) ==
    /\ pc[p] = "gv_query"
    /\ trace' = [trace EXCEPT ![p] = Call(p, "db.fetchrow", "SELECT", TRUE)]
    /\ IF RowsByName(store, req[p].name) = {}
          THEN /\ pc' = [pc EXCEPT ![p] = "done"]
               /\ res' = [res EXCEPT ![p] =
                             [status |-> 404, body |-> "not found", hit |-> <<>>]]
               /\ loc' = [loc EXCEPT ![p] = [@ EXCEPT !.since = "changed"] @@ [row |-> <<>>]]
          ELSE /\ pc' = [pc EXCEPT ![p] = "gv_set"]
               /\ \E row \in RowsByName(store, req[p].name) :
                     loc' = [loc EXCEPT ![p] = @ @@ [row |-> <<row>>]]
               /\ UNCHANGED res
    /\ UNCHANGED <<env, started, store, seq, now, cache, req, lastMiss>>

gv_set(p) ==
    /\ pc[p] = "gv_set"
    /\ LET visitor == VisitorCacheDict(loc[p].row[1])
       IN  CacheSet(p, VisitorKey(req[p].name),
                    dumps_obj(visitor, VisitorCacheFields), visitor, visitor)

\* ---------------------------------------------------------- GET /visitors
get_visitors(p) ==
    \E limit \in Limits :
        Enter(p, [op |-> "get_visitors", limit |-> limit], TRUE, "gvs_get")

gvs_get(p) ==
    /\ pc[p] = "gvs_get"
    /\ CacheGet(p, AllKey,
                [from_cache |-> TRUE, visitors |-> loads_list(cache[AllKey].text)],
                "gvs_query")

\* rows = await conn.fetch("SELECT ... ORDER BY visit_time DESC LIMIT $1")
gvs_query(p) ==
    /\ pc[p] = "gvs_query"
    /\ trace' = [trace EXCEPT ![p] = Call(p, "db.fetch", "SELECT", TRUE)]
    /\ \E rows \in OrderByDescLimit(store, "visit_time", req[p].limit) :
          loc' = [loc EXCEPT ![p] = @ @@ [rows |-> rows]]
    /\ pc' = [pc EXCEPT ![p] = "gvs_set"]
    /\ UNCHANGED <<env, started, store, seq, now, cache, req, res, lastMiss>>

gvs_set(p) ==
    /\ pc[p] = "gvs_set"
    /\ LET visitors == [i \in DOMAIN loc[p].rows |-> VisitorDict(loc[p].rows[i])]
       IN  CacheSet(p, AllKey, dumps_list(visitors, VisitorFields), visitors,
                    [from_cache |-> FALSE, visitors |-> visitors])

\* -------------------------------------------------------------- GET /stats
get_stats(p) == Enter(p, [op |-> "get_stats"], TRUE, "gs_get")

gs_get(p) ==
    /\ pc[p] = "gs_get"
    /\ CacheGet(p, StatsKey,
                [loads_stats(cache[StatsKey].text) EXCEPT !["from_cache"] = TRUE],
                "gs_agg")

\* stats = await conn.fetchrow("SELECT COUNT(*), COALESCE(SUM(..)), MAX(..), AVG(..)")
gs_agg(p) ==
    /\ pc[p] = "gs_agg"
    /\ trace' = [trace EXCEPT ![p] = Call(p, "db.fetchrow", "SELECT", TRUE)]
    /\ loc' = [loc EXCEPT ![p] = @ @@ [stats |-> Aggregate(store)]]
    /\ pc' = [pc EXCEPT ![p] = "gs_top"]
    /\ UNCHANGED <<env, started, store, seq, now, cache, req, res, lastMiss>>

\* top_visitors = await conn.fetch("SELECT name, visit_count ... ORDER BY
\* visit_count DESC LIMIT 5")
gs_top(p) ==
    /\ pc[p] = "gs_top"
    /\ trace' = [trace EXCEPT ![p] = Call(p, "db.fetch", "SELECT", TRUE)]
    /\ \E top \in OrderByDescLimit(store, "visit_count", TopLimit) :
          loc' = [loc EXCEPT ![p] = @ @@ [top |-> top]]
    /\ pc' = [pc EXCEPT ![p] = "gs_set"]
    /\ UNCHANGED <<env, started, store, seq, now, cache, req, res, lastMiss>>

gs_set(p) ==
    /\ pc[p] = "gs_set"
    /\ LET data == StatsDict(loc[p].stats, loc[p].top)
       IN  CacheSet(p, StatsKey, dumps_stats(data), data, data)

\* ------------------------------------------------------------- GET /health
\* str(e) of the exception a probe raises
ProbeErrors == {"", "refused"}
StatusHealthy == "healthy"
StatusUnavailable == "unavailable"
Unhealthy(e) == "unhealthy: " \o e

\* one probe: no client: "unavailable"; the awaited call returns: "healthy";
\* it raises e: "unhealthy: <e>"
ProbeStatuses(client) ==
    IF client = None THEN {StatusUnavailable}
    ELSE {StatusHealthy} \cup {Unhealthy(e) : e \in ProbeErrors}

\* variant: one healthy dependency is enough
OverallStatusEither(db_status, cache_status) ==
    IF db_status = StatusHealthy \/ cache_status = StatusHealthy THEN "healthy" ELSE "degraded"

\* overall_status = "healthy" if db_status == "healthy" and
\* cache_status == "healthy" else "degraded"
OverallStatus(db_status, cache_status) ==
    IF db_status = StatusHealthy /\ cache_status = StatusHealthy THEN "healthy" ELSE "degraded"

\* the handler has no dependencies: it starts whatever db_pool and
\* redis_client are
health_check(p) ==
    /\ pc[p] = "idle"
    /\ started < MaxReqs
    /\ started' = started + 1
    /\ req' = [req EXCEPT ![p] = [op |-> "health_check"]]
    /\ pc' = [pc EXCEPT ![p] = "hc_db"]
    /\ UNCHANGED <<env, store, seq, now, cache, loc, res, trace, lastMiss>>

\* `# Check PostgreSQL`
hc_db(p) ==
    /\ pc[p] = "hc_db"
    /\ \E st \in ProbeStatuses(db_pool) :
          /\ loc' = [loc EXCEPT ![p] = [db_status |-> st]]
          /\ trace' = [trace EXCEPT ![p] =
                IF db_pool = None THEN trace[p]
                ELSE Call(p, "db.fetchval", "SELECT 1", st = StatusHealthy)]
    /\ pc' = [pc EXCEPT ![p] = "hc_cache"]
    /\ UNCHANGED <<env, started, store, seq, now, cache, req, res, lastMiss>>

\* `# Check Redis`, then the response
hc_cache(p) ==
    /\ pc[p] = "hc_cache"
    /\ \E st \in ProbeStatuses(redis_client) :
          /\ res' = [res EXCEPT ![p] =
                [status |-> 200,
                 body |-> [cache |-> st,
                           status |-> OverallStatus(loc[p].db_status, st),
                           database |-> loc[p].db_status,
                           timestamp |-> isoformat(now)]]]
          /\ trace' = [trace EXCEPT ![p] =
                IF redis_client = None THEN trace[p]
                ELSE Call(p, "cache.ping", "", st = StatusHealthy)]
    /\ pc' = [pc EXCEPT ![p] = "done"]
    /\ UNCHANGED <<env, started, store, seq, now, cache, req, loc, lastMiss>>

\* ------------------------------------------------------------ environment
\* redis evicts an entry once its ttl has elapsed
Expire(k) ==
    /\ CacheHas(k)
    /\ cache' = Del(cache, k)
    /\ loc' = MarkExpired(loc, k)
    /\ lastMiss' = [lastMiss EXCEPT ![k] = <<>>]
    /\ UNCHANGED <<env, started, store, seq, now, pc, req, res, trace>>

\* the response has been sent: the handler's task ends
Return(p) ==
    /\ pc[p] = "done"
    /\ pc' = [pc EXCEPT ![p] = "idle"]
    /\ req' = [req EXCEPT ![p] = NoReq]
    /\ loc' = [loc EXCEPT ![p] = NoLoc]
    /\ res' = [res EXCEPT ![p] = NoRes]
    /\ trace' = [trace EXCEPT ![p] = <<>>]
    /\ UNCHANGED <<env, started, store, seq, now, cache, lastMiss>>

\* ----------------------------------------------------------- specifications
Step(p, names) ==
    \/ create_visitor(p, names) \/ cv_select(p) \/ cv_write(p)
    \/ cv_inv1(p) \/ cv_inv2(p) \/ cv_inv3(p)
    \/ delete_visitor(p, names) \/ dv_delete(p)
    \/ dv_inv1(p) \/ dv_inv2(p) \/ dv_inv3(p)
    \/ get_visitor(p, names) \/ gv_get(p) \/ gv_query(p) \/ gv_set(p)
    \/ get_visitors(p) \/ gvs_get(p) \/ gvs_query(p) \/ gvs_set(p)
    \/ get_stats(p) \/ gs_get(p) \/ gs_agg(p) \/ gs_top(p) \/ gs_set(p)
    \/ Return(p)

\* handlers run concurrently, interleaved at their awaits
Next == (\E p \in Procs : Step(p, ConcurrentNames)) \/ (\E k \in Keys : Expire(k))

Spec == Init /\ [][Next]_vars


\* requests served one at a time: a handler moves only while no other handler
\* is between its first await and its response
Alone(p) == \A q \in Procs \ {p} : pc[q] \in {"idle", "done"}
NextSeq ==
    \/ \E p \in Procs :
          \/ Alone(p) /\ create_visitor(p, Names)
          \/ Alone(p) /\ cv_select(p)
          \/ Alone(p) /\ cv_write(p)
          \/ Alone(p) /\ cv_inv1(p)
          \/ Alone(p) /\ cv_inv2(p)
          \/ Alone(p) /\ cv_inv3(p)
          \/ Alone(p) /\ delete_visitor(p, Names)
          \/ Alone(p) /\ dv_delete(p)
          \/ Alone(p) /\ dv_inv1(p)
          \/ Alone(p) /\ dv_inv2(p)
          \/ Alone(p) /\ dv_inv3(p)
          \/ Alone(p) /\ get_visitor(p, Names)
          \/ Alone(p) /\ gv_get(p)
          \/ Alone(p) /\ gv_query(p)
          \/ Alone(p) /\ gv_set(p)
          \/ Alone(p) /\ get_visitors(p)
          \/ Alone(p) /\ gvs_get(p)
          \/ Alone(p) /\ gvs_query(p)
          \/ Alone(p) /\ gvs_set(p)
          \/ Alone(p) /\ get_stats(p)
          \/ Alone(p) /\ gs_get(p)
          \/ Alone(p) /\ gs_agg(p)
          \/ Alone(p) /\ gs_top(p)
          \/ Alone(p) /\ gs_set(p)
          \/ Return(p)
    \/ \E k \in Keys : Expire(k)

SpecSeq == Init /\ [][NextSeq]_vars


\* ------------------------------------------------ the statistics on their own
\* The table as a run of upserts leaves it: rows 1 .. k are created in turn,
\* then row i is upserted counts[i] - 1 more times, in the order of the ids.
RECURSIVE Upserts(_, _)
Upserts(counts, i) == IF i = 0 THEN 0 ELSE (counts[i] - 1) + Upserts(counts, i - 1)

TableAfter(k, counts) ==
    {[name |-> "v" \o ToString(i), id |-> i, message |-> None,
      visit_time |-> IF counts[i] = 1 THEN i ELSE k + Upserts(counts, i),
      visit_count |-> counts[i]] : i \in 1 .. k}

InitStats ==
    /\ db_pool = Pool
    /\ redis_client = Client
    /\ started = 0
    /\ \E k \in 0 .. MaxRows : \E counts \in [1 .. k -> 1 .. MaxCount] :
          /\ store = TableAfter(k, counts)
          /\ seq = k
          /\ now = k + Upserts(counts, k)
    /\ cache = <<>>
    /\ pc = [p \in Procs |-> "idle"]
    /\ req = [p \in Procs |-> NoReq]
    /\ loc = [p \in Procs |-> NoLoc]
    /\ res = [p \in Procs |-> NoRes]
    /\ trace = [p \in Procs |-> <<>>]
    /\ lastMiss = [k \in Keys |-> <<>>]

\* one GET /stats against that table
NextStats ==
    \E p \in {1} : get_stats(p) \/ gs_get(p) \/ gs_agg(p) \/ gs_top(p) \/ gs_set(p)

SpecStats == InitStats /\ [][NextStats]_vars


\* --------------------------------------------------- expiry in real time
\* The state right after a read of name "a" that was concurrent with an
\* upsert of "a" repopulated visitor:a with the row it had read before the
\* upsert: the writer's invalidation is done and the writer and that reader
\* have returned.  Any of the handlers may be another such reader that has
\* read the old row and has not yet written it.  Time is in seconds; the
\* row was created at second 1 and upserted at second 2.
OldRow == NewRow(1, "a", None, 1)
CurrentTable == UpdateRows({OldRow}, "a", "hi", 2)
RepopulatedAt == 2
StaleReader ==
    [row |-> <<OldRow>>, since |-> "changed", missed |-> TRUE, getRaised |-> FALSE]

InitTtl ==
    /\ db_pool = Pool
    /\ redis_client = Client
    /\ store = CurrentTable
    /\ seq = 1
    /\ now = RepopulatedAt
    /\ cache = Setex(<<>>, VisitorKey("a"), CACHE_TTL,
                     dumps_obj(VisitorCacheDict(OldRow), VisitorCacheFields),
                     VisitorCacheDict(OldRow))
    /\ \E late \in SUBSET Procs :
          /\ started = Cardinality(late)
          /\ pc = [p \in Procs |-> IF p \in late THEN "gv_set" ELSE "idle"]
          /\ req = [p \in Procs |->
                      IF p \in late THEN [name |-> "a", op |-> "get_visitor"] ELSE NoReq]
          /\ loc = [p \in Procs |-> IF p \in late THEN StaleReader ELSE NoLoc]
          /\ trace = [p \in Procs |->
                        IF p \in late
                           THEN <<<<"cache.get", VisitorKey("a"), "ok">>,
                                  <<"db.fetchrow", "SELECT", "ok">>>>
                           ELSE <<>>]
    /\ res = [p \in Procs |-> NoRes]
    /\ lastMiss = [k \in Keys |-> <<>>]

\* TickLen seconds pass: redis ages every entry and evicts those whose time to
\* live has run out
Tick ==
    LET kept == {k \in DOMAIN cache : cache[k].ttl > TickLen}
        gone == DOMAIN cache \ kept
    IN  /\ now + TickLen <= RepopulatedAt + MaxTicks * TickLen
        /\ now' = now + TickLen
        /\ cache' = [k \in kept |->
                        [cache[k] EXCEPT !.ttl = @ - TickLen, !.age = @ + TickLen]]
        /\ loc' = [q \in Procs |->
                      IF "since" \in DOMAIN loc[q] /\ ReadKey(req[q]) \in gone
                         THEN [loc[q] EXCEPT !.since = "changed"] ELSE loc[q]]
        /\ lastMiss' = [k \in Keys |-> IF k \in gone THEN <<>> ELSE lastMiss[k]]
        /\ UNCHANGED <<env, started, store, seq, pc, req, res, trace>>

\* reads of "a" while time passes, and no further mutation
NextTtl ==
    \/ \E p \in Procs :
          \/ get_visitor(p, {"a"}) \/ gv_get(p) \/ gv_query(p) \/ gv_set(p)
          \/ Return(p)
    \/ Tick

SpecTtl == InitTtl /\ [][NextTtl]_vars

\* ------------------------------------- two upserts of a name that has a row
\* the table when the two requests arrive: one row of "a", or the two rows
\* that two overlapping first upserts have left
DuplicateRow == NewRow(2, "a", "hi", 2)
TablesBefore == {{OldRow}, {OldRow, DuplicateRow}}

InitRace ==
    /\ db_pool = Pool
    /\ redis_client = Client
    /\ started = 0
    /\ store \in TablesBefore
    /\ seq = Cardinality(store)
    /\ now = Cardinality(store)
    /\ cache = <<>>
    /\ pc = [p \in Procs |-> "idle"]
    /\ req = [p \in Procs |-> NoReq]
    /\ loc = [p \in Procs |-> NoLoc]
    /\ res = [p \in Procs |-> NoRes]
    /\ trace = [p \in Procs |-> <<>>]
    /\ lastMiss = [k \in Keys |-> <<>>]

\* the handlers of the two requests
Racers == {1, 2}

\* each of the two serves one POST /visitors for "a", in any interleaving
NextRace ==
    \E p \in Racers :
        \/ create_visitor(p, {"a"}) \/ cv_select(p) \/ cv_write(p)
        \/ cv_inv1(p) \/ cv_inv2(p) \/ cv_inv3(p)

SpecRace == InitRace /\ [][NextRace]_vars

\* ------------------------------- one request at a time, the cache never failing
\* the call that handler p issues in this step returns without raising
Succeeds(p) == trace'[p][Len(trace'[p])][3] = "ok"

NextSeqOk ==
    \/ \E p \in Procs :
          \/ Alone(p) /\ create_visitor(p, Names)
          \/ Alone(p) /\ cv_select(p)
          \/ Alone(p) /\ cv_write(p)
          \/ Alone(p) /\ cv_inv1(p) /\ Succeeds(p)
          \/ Alone(p) /\ cv_inv2(p) /\ Succeeds(p)
          \/ Alone(p) /\ cv_inv3(p) /\ Succeeds(p)
          \/ Alone(p) /\ delete_visitor(p, Names)
          \/ Alone(p) /\ dv_delete(p)
          \/ Alone(p) /\ dv_inv1(p) /\ Succeeds(p)
          \/ Alone(p) /\ dv_inv2(p) /\ Succeeds(p)
          \/ Alone(p) /\ dv_inv3(p) /\ Succeeds(p)
          \/ Alone(p) /\ get_visitor(p, Names)
          \/ Alone(p) /\ gv_get(p) /\ Succeeds(p)
          \/ Alone(p) /\ gv_query(p)
          \/ Alone(p) /\ gv_set(p) /\ Succeeds(p)
          \/ Alone(p) /\ get_visitors(p)
          \/ Alone(p) /\ gvs_get(p) /\ Succeeds(p)
          \/ Alone(p) /\ gvs_query(p)
          \/ Alone(p) /\ gvs_set(p) /\ Succeeds(p)
          \/ Alone(p) /\ get_stats(p)
          \/ Alone(p) /\ gs_get(p) /\ Succeeds(p)
          \/ Alone(p) /\ gs_agg(p)
          \/ Alone(p) /\ gs_top(p)
          \/ Alone(p) /\ gs_set(p) /\ Succeeds(p)
          \/ Return(p)
    \/ \E k \in Keys : Expire(k)

SpecSeqOk == Init /\ [][NextSeqOk]_vars

\* ------------------------------------------- listings of an unchanging table
\* GET /visitors requests, with either limit, and no mutation
NextList ==
    \E p \in Procs :
        \/ get_visitors(p) \/ gvs_get(p) \/ gvs_query(p) \/ gvs_set(p)
        \/ Return(p)

SpecList == InitStats /\ [][NextList]_vars

\* ------------------------------------------------- the health check on its own
NextHealth ==
    \E p \in Procs : health_check(p) \/ hc_db(p) \/ hc_cache(p) \/ Return(p)

SpecHealth == Init /\ [][NextHealth]_vars


\* ======================================================================
\* Properties
\* ======================================================================
ReadOps == {"get_visitor", "get_visitors", "get_stats"}
WriteOps == {"create_visitor", "delete_visitor"}
Done(p) == pc[p] = "done"
DoneRead(p) == Done(p) /\ req[p].op \in ReadOps
DoneWrite(p) == Done(p) /\ req[p].op \in WriteOps
Hit(p) == DoneRead(p) /\ res[p].status = 200 /\ res[p].hit # <<>>

\* C1: under any interleaving of upserts and deletes the table holds at most
\* one row per name.  (Two overlapping upserts of a new name both find no row
\* and both insert.)
C1_OneRecordPerName ==
    \A n \in Names : Cardinality(RowsByName(store, n)) <= 1

Consecutive(p, q) ==
    /\ p # q
    /\ Done(p) /\ req[p].op = "create_visitor" /\ res[p].status = 200
    /\ Done(q) /\ req[q].op = "create_visitor" /\ res[q].status = 200
    /\ req[p].name = req[q].name
    /\ loc[q].commit = loc[p].commit + 1

\* C3: for a name with no row, upsert(n, m1) then upsert(n, m2), one after
\* the other, leave exactly one row for n, with message m2 and visit_count 2,
\* and both calls return the same id.
C3_UpsertTwice ==
    \A p, q \in Procs :
        Consecutive(p, q) /\ ~loc[p].existing =>
            /\ res[q].body.id = res[p].body.id
            /\ res[q].body.visit_count = 2
            /\ res[q].body.message = req[q].message
            /\ now = loc[q].commit =>
                  \E r \in store :
                      /\ RowsByName(store, req[q].name) = {r}
                      /\ r.message = req[q].message
                      /\ r.visit_count = 2
                      /\ r.id = res[p].body.id

\* two such upserts with different messages have both returned
C3_Witness ==
    \E p, q \in Procs :
        /\ Consecutive(p, q) /\ ~loc[p].existing
        /\ req[p].message # req[q].message
        /\ now = loc[q].commit

\* ---------------------------------------------------------------------- C4
\* C4: with the store reachable, a read returns the store's value or NotFound
\* whatever the cache does, also when the cache has been unavailable since
\* startup.
C4_ReadSurvivesCacheOutage ==
    \A p \in Procs :
        DoneRead(p) /\ db_pool = Pool => res[p].status \in {200, 404}

\* ---------------------------------------------------------------------- C5
GetRaised(p) ==
    /\ trace[p] # <<>>
    /\ trace[p][1][1] = "cache.get" /\ trace[p][1][3] = "raise"

\* what the handler's store query returned, as the handler renders it
Queried(p) ==
    CASE req[p].op = "get_visitor" -> VisitorCacheDict(loc[p].row[1])
      [] req[p].op = "get_visitors" ->
            [from_cache |-> FALSE,
             visitors |-> [i \in DOMAIN loc[p].rows |-> VisitorDict(loc[p].rows[i])]]
      [] req[p].op = "get_stats" -> StatsDict(loc[p].stats, loc[p].top)

NoRow(p) == req[p].op = "get_visitor" /\ loc[p].row = <<>>

\* C5 as stated: a read whose cache.get raised does not raise and returns
\* what its store query returned, tagged from_cache = false.
C5_GetRaiseReturnsStoreValue ==
    \A p \in Procs :
        DoneRead(p) /\ GetRaised(p) =>
            /\ res[p].status = 200
            /\ res[p].body = Queried(p)
            /\ res[p].body.from_cache = FALSE

\* C5 amended: it returns that value, or, for get_visitor when the store has
\* no row for the name, NotFound (404).
C5_GetRaiseReturnsStoreOutcome ==
    \A p \in Procs :
        DoneRead(p) /\ GetRaised(p) =>
            IF NoRow(p) THEN res[p].status = 404
            ELSE /\ res[p].status = 200
                 /\ res[p].body = Queried(p)
                 /\ res[p].body.from_cache = FALSE

\* a read whose cache.get raised has returned a row of the store
C5_Witness ==
    \E p \in Procs :
        /\ DoneRead(p) /\ GetRaised(p) /\ req[p].op = "get_visitor"
        /\ res[p].status = 200

\* ---------------------------------------------------------------------- C6
\* C6: with the store reachable, no cache failure (the cache unavailable since
\* startup, or a cache call raising) makes a write request fail: create_visitor
\* returns the row it wrote, delete_visitor of an existing name succeeds.
C6_WriteSurvivesCacheOutage ==
    \A p \in Procs :
        /\ DoneWrite(p) /\ db_pool = Pool /\ req[p].name # Missing
        /\ redis_client = None \/ CacheRaised(p)
        => \/ res[p].status = 200
           \/ req[p].op = "delete_visitor" /\ res[p].status = 404
           \/ req[p].op = "create_visitor" /\ redis_client # None
                 /\ loc[p].result = <<>>


\* ---------------------------------------------------------------------- C7
SansTag(body) == [body EXCEPT !["from_cache"] = FALSE]
\* the response a stored value stands for, untagged
FromStored(op, v) ==
    IF op = "get_visitors" THEN [from_cache |-> FALSE, visitors |-> v] ELSE v

MissIsTagged(p) ==
    DoneRead(p) /\ res[p].status = 200 /\ res[p].hit = <<>>
        => res[p].body.from_cache = FALSE
HitIsStoredValue(p) ==
    Hit(p) => /\ res[p].body.from_cache = TRUE
              /\ SansTag(res[p].body) = FromStored(req[p].op, res[p].hit[1].orig)

\* C7 as stated: a miss is tagged from_cache = false, a hit is tagged true and
\* is the value stored under the key, and a hit that follows a miss with no
\* mutation and no expiry in between has the miss's payload.
C7_HitEqualsMiss ==
    \A p \in Procs :
        /\ MissIsTagged(p)
        /\ HitIsStoredValue(p)
        /\ Hit(p) /\ res[p].hit[1].miss # <<>>
              => SansTag(res[p].body) = FromStored(req[p].op, res[p].hit[1].miss[1])

\* C7 amended: the third part holds when, besides, no other request wrote the
\* key between the miss and the hit.
C7_HitEqualsUnoverwrittenMiss ==
    \A p \in Procs :
        /\ MissIsTagged(p)
        /\ HitIsStoredValue(p)
        /\ Hit(p) /\ res[p].hit[1].miss # <<>> /\ ~res[p].hit[1].miss[2]
              => SansTag(res[p].body) = FromStored(req[p].op, res[p].hit[1].miss[1])

\* a hit on a row of the store right after the miss that stored it
C7_Witness ==
    \E p \in Procs :
        /\ Hit(p) /\ req[p].op = "get_visitor"
        /\ res[p].hit[1].miss # <<>> /\ ~res[p].hit[1].miss[2]

\* ---------------------------------------------------------------------- C8
NoCacheCall(tr) ==
    \A i \in DOMAIN tr : tr[i][1] \notin {"cache.get", "cache.setex", "cache.delete"}

\* C8: delete_visitor of a name with no row answers 404 and changes neither
\* the table nor any cache key; it issues no cache call.
C8_DeleteMissing ==
    [][\A p \in Procs :
          /\ pc[p] = "dv_delete" /\ pc'[p] # "dv_delete"
          /\ RowsByName(store, req[p].name) = {}
          => /\ pc'[p] = "done"
             /\ res'[p].status = 404
             /\ store' = store
             /\ cache' = cache
             /\ NoCacheCall(trace'[p])]_vars

\* a delete of a missing name has answered while the cache holds entries
C8_Witness ==
    \E p \in Procs :
        /\ Done(p) /\ req[p].op = "delete_visitor" /\ res[p].status = 404
        /\ DOMAIN cache # {}

\* ---------------------------------------------------------------------- C9
\* C9: an upsert with the empty name is rejected with a validation error
\* before any store or cache call.
C9_EmptyNameRejected ==
    \A p \in Procs :
        /\ req[p].op = "create_visitor" /\ req[p].name = ""
        /\ db_pool = Pool /\ redis_client = Client
        => /\ Done(p)
           /\ res[p].status = 422
           /\ trace[p] = <<>>

\* --------------------------------------------------------------------- C10
RECURSIVE VisitsUpTo(_)
\* the visits of the rows with ids 1 .. i
VisitsUpTo(i) ==
    IF i = 0 THEN 0
    ELSE VisitsUpTo(i - 1)
         + (IF \E r \in store : r.id = i
               THEN (CHOOSE r \in store : r.id = i).visit_count ELSE 0)

Abs(x) == IF x < 0 THEN -x ELSE x
Listed(top) == {top[i].name : i \in DOMAIN top}

\* C10: on a miss over a non-empty table get_stats returns the number of rows,
\* the sum of their visit_count, their quotient rounded to two decimals (kept
\* in hundredths), and at most 5 rows in non-increasing visit_count order, no
\* omitted row having more visits than a listed one.
C10_Stats ==
    \A p \in Procs :
        /\ Done(p) /\ req[p].op = "get_stats" /\ res[p].status = 200
        /\ res[p].hit = <<>> /\ store # {}
        => LET b == res[p].body
               top == b.top_visitors
           IN  /\ b.total_visitors = Cardinality(store)
               /\ b.total_visits = VisitsUpTo(seq)
               /\ 2 * Abs(b.avg_visits_per_visitor * b.total_visitors
                          - 100 * b.total_visits) <= b.total_visitors
               /\ Len(top) <= 5
               /\ Len(top) = IF Cardinality(store) < 5 THEN Cardinality(store) ELSE 5
               /\ \A i, j \in DOMAIN top : i < j => top[i].visits >= top[j].visits
               /\ \A i, j \in DOMAIN top : i # j => top[i].name # top[j].name
               /\ \A i \in DOMAIN top :
                     \E r \in store : r.name = top[i].name /\ r.visit_count = top[i].visits
               /\ \A r \in store : r.name \notin Listed(top) =>
                     \A i \in DOMAIN top : r.visit_count <= top[i].visits

\* a miss over more than 5 rows of differing visit_count, whose average is
\* not a whole number of hundredths
C10_Witness ==
    \E p \in Procs :
        /\ Done(p) /\ req[p].op = "get_stats" /\ res[p].status = 200
        /\ res[p].hit = <<>> /\ Cardinality(store) > 5
        /\ \E r1, r2 \in store : r1.visit_count # r2.visit_count
        /\ (100 * res[p].body.total_visits) % res[p].body.total_visitors # 0

\* --------------------------------------------------------------------- C11
\* C11: health_check always answers with a result; the overall status is
\* "healthy" exactly when the database and the cache status are both
\* "healthy", and "degraded" otherwise (a dependency that is None reports
\* "unavailable", one whose probe raises "unhealthy: ...").
C11_Health ==
    \A p \in Procs :
        Done(p) /\ req[p].op = "health_check" =>
            LET b == res[p].body
            IN  /\ res[p].status = 200
                /\ b.status \in {"healthy", "degraded"}
                /\ b.status = "healthy" <=>
                      b.database = "healthy" /\ b.cache = "healthy"
                /\ b.database = "unavailable" <=> db_pool = None
                /\ b.cache = "unavailable" <=> redis_client = None
                /\ (db_pool = None \/ redis_client = None) => b.status = "degraded"
                /\ CacheRaised(p) => b.status = "degraded"

\* a health check has answered with the database healthy and the cache probe
\* raising
C11_Witness ==
    \E p \in Procs :
        /\ Done(p) /\ req[p].op = "health_check"
        /\ res[p].body.database = "healthy"
        /\ res[p].body.cache = "unhealthy: refused"
        /\ res[p].body.status = "degraded"

\* --------------------------------------------------------------------- C12
Ids(S) == {r.id : r \in S}
RowOf(S, id) == CHOOSE r \in S : r.id = id
\* handler p commits its upsert in this step
Upserting(p) == pc[p] = "cv_write" /\ pc'[p] = "cv_inv1"

\* C12: in every step, a row that stays keeps its id and its name; a row that
\* appears has an id above every id assigned before and visit_count 1; the
\* visit_count of an id never decreases; an upsert of a name that has a row
\* adds exactly 1 to its visit_count and creates no row, and no other step
\* changes a visit_count.
C12_IdsAndCounts ==
    [][/\ \A r \in store : r.id <= seq
       /\ \A r \in store' :
             IF r.id \in Ids(store)
                THEN /\ RowOf(store, r.id).name = r.name
                     /\ r.visit_count >= RowOf(store, r.id).visit_count
                     /\ Cardinality({o \in store' : o.id = r.id}) = 1
                ELSE /\ r.id > seq
                     /\ r.visit_count = 1
       /\ \A n \in Names :
             LET old == RowsByName(store, n)
                 new == RowsByName(store', n)
             IN  IF \E p \in Procs : Upserting(p) /\ req[p].name = n
                    THEN IF old = {}
                            THEN Cardinality(new) = 1
                            ELSE /\ Ids(new) = Ids(old)
                                 /\ \A r \in new :
                                       r.visit_count = RowOf(old, r.id).visit_count + 1
                    ELSE \A r \in new : r.id \in Ids(old) =>
                            r.visit_count = RowOf(old, r.id).visit_count]_vars

\* a name was created, deleted, created again and upserted once more: its
\* row has the second id and visit_count 2
C12_Witness ==
    /\ seq = 2
    /\ \E r \in store : r.id = 2 /\ r.visit_count = 2
    /\ Cardinality(store) = 1

\* --------------------------------------------------------------------- C13
\* the value a read of "a" returns is the one the store holds now
Current(p) == SansTag(res[p].body) = VisitorCacheDict(RowOf(store, 1))

\* C13 as stated: once CACHE_TTL has elapsed since the repopulation with the
\* pre-mutation value, with no further mutation, a read of the key returns
\* the store's current value.
C13_CurrentAfterTtl ==
    [][\A p \in Procs :
          /\ pc[p] # "done" /\ pc'[p] = "done" /\ res'[p].status = 200
          /\ req[p].op = "get_visitor" /\ loc[p] = NoLoc
          /\ now >= RepopulatedAt + CACHE_TTL
          => SansTag(res'[p].body) = VisitorCacheDict(RowOf(store, 1))]_vars

\* C13 amended: every entry is evicted before it is CACHE_TTL old, and a read
\* returns a pre-mutation value only from an entry set less than CACHE_TTL
\* before, or when it read the store itself before the mutation: the bound
\* runs from the last repopulation with such a value, not from the first.
C13_StaleOnlyWithinTtl ==
    /\ \A k \in DOMAIN cache : cache[k].age < CACHE_TTL /\ cache[k].ttl > 0
    /\ \A p \in Procs :
          DoneRead(p) /\ res[p].status = 200 =>
              /\ Hit(p) => res[p].hit[1].age < CACHE_TTL
              /\ ~Current(p) =>
                    \/ Hit(p) /\ res[p].hit[1].age < CACHE_TTL
                    \/ ~Hit(p) /\ loc[p].row = <<OldRow>>

\* CACHE_TTL after the repopulation a read misses and returns the current row
C13_Witness ==
    \E p \in Procs :
        /\ DoneRead(p) /\ res[p].status = 200 /\ ~Hit(p)
        /\ now >= RepopulatedAt + CACHE_TTL
        /\ Current(p)
        /\ loc[p].missed


\* --------------------------------------------------------------------- C14
\* the keys for which the handler issued a delete, whatever its outcome
Attempted(tr) ==
    {tr[i][2] : i \in {j \in DOMAIN tr : tr[j][1] = "cache.delete"}}

\* C14: every create_visitor or delete_visitor that mutated the store
\* attempts a delete of each of visitor:<name>, visitors:all and stats, also
\* when the delete of one of them fails.  (The three deletes share one try
\* block: the first that raises skips the ones after it.)
C14_AllDeletesAttempted ==
    \A p \in Procs :
        DoneWrite(p) /\ res[p].status = 200 =>
            Attempted(trace[p]) =
                {VisitorKey(req[p].name), AllKey, StatsKey}


\* --------------------------------------------------------------------- C15
StoreWrites == {"UPDATE", "INSERT", "DELETE"}
SetPcs == {"gv_set", "gvs_set", "gs_set"}

\* in the calls of a write handler every cache.delete comes after the store
\* mutation's call, and there is no cache.setex
DeletesFollowMutation(tr) ==
    \A i \in DOMAIN tr :
        /\ tr[i][1] # "cache.setex"
        /\ tr[i][1] = "cache.delete" =>
              \E j \in 1..(i - 1) : tr[j][2] \in StoreWrites

Wrote(p) == req[p].op = "create_visitor" /\ "commit" \in DOMAIN loc[p]

\* C16: when two upserts of a name that has a record overlap in any way,
\* each record of the name ends with visit_count exactly 2 above its value
\* before them and with the message of the upsert whose UPDATE the store
\* committed last; no record is added.
C16_NoLostIncrement ==
    \A p, q \in Procs :
        Wrote(p) /\ Wrote(q) /\ loc[p].commit < loc[q].commit =>
            /\ loc[p].existing /\ loc[q].existing
            /\ Ids(store) = 1 .. seq /\ Cardinality(store) = seq
            /\ \A r \in RowsByName(store, "a") :
                  /\ r.visit_count = OldRow.visit_count + 2
                  /\ r.message = req[q].message

\* q ran its UPDATE while p was between its SELECT and its return; p's
\* UPDATE came last, with another message
C16_Witness ==
    \E p, q \in Procs :
        /\ Wrote(p) /\ Wrote(q) /\ loc[q].commit < loc[p].commit
        /\ pc[p] = "done" /\ res[p].status = 200 /\ pc[q] = "cv_inv1"
        /\ req[p].message # req[q].message
        /\ \A r \in store : r.visit_count = 3 /\ r.message = req[p].message


\* --------------------------------------------------------------------- C17
\* handler p finishes a get_visitor in this step
FinishesGet(p) ==
    req[p].op = "get_visitor" /\ pc[p] # "done" /\ pc'[p] = "done"

\* C17 as stated: a get_visitor for a name that has no record in the store
\* answers 404.  (An entry that outlived the record, its delete having
\* failed, is returned with status 200.)
C17_NoRecordIsNotFound ==
    [][\A p \in Procs :
          FinishesGet(p) /\ pc[p] # "idle" /\ RowsByName(store, req[p].name) = {}
              => res'[p].status = 404]_vars

\* get_visitor p finishes with a record while upsert q, the last mutation,
\* has returned; a value p takes from the cache is not one that a failed
\* delete of q left in place
ReadsAfterUpsert(p, q) ==
    /\ FinishesGet(p) /\ res'[p].status = 200
    /\ Done(q) /\ req[q].op = "create_visitor" /\ res[q].status = 200
    /\ req[p].name = req[q].name /\ now = loc[q].commit
    /\ res'[p].hit # <<>> => VisitorKey(req[q].name) \in Deleted(trace[q])

\* C17 amended: a get_visitor that gets no value from the cache, for a name
\* that has no record, answers 404 and issues no cache set, leaving the cache
\* as it was; and, requests running one at a time, after an upsert whose
\* delete of visitor:<name> succeeded a get_visitor of that name returns the
\* record that the upsert wrote.
C17_NotFoundNotCached ==
    [][/\ \A p \in Procs :
            pc[p] = "gv_query" /\ pc'[p] # "gv_query"
            /\ RowsByName(store, req[p].name) = {} =>
                /\ pc'[p] = "done" /\ res'[p].status = 404
                /\ \A i \in DOMAIN trace'[p] : trace'[p][i][1] # "cache.setex"
                /\ cache' = cache
       /\ \A p, q \in Procs :
            ReadsAfterUpsert(p, q) =>
                SansTag(res'[p].body) = VisitorCacheDict(loc[q].result[1])]_vars

\* a get_visitor of "a" answered 404 and, after an upsert of "a" since, a
\* get_visitor of "a" returned the new record
C17_Witness ==
    \E p, q \in Procs :
        /\ DoneRead(p) /\ req[p] = [name |-> "a", op |-> "get_visitor"]
        /\ res[p].status = 404
        /\ DoneRead(q) /\ req[q] = [name |-> "a", op |-> "get_visitor"]
        /\ res[q].status = 200
        /\ \E r \in store : r.name = "a" /\ res[q].body = VisitorCacheDict(r)


\* --------------------------------------------------------------------- C18
\* the lists that the store query with limit n may return, as the handler
\* returns them
Listing(S, n) ==
    {[i \in DOMAIN rows |-> VisitorDict(rows[i])] :
        rows \in OrderByDescLimit(S, "visit_time", n)}

\* C18: with no mutation between them, every get_visitors call, on a cache
\* hit too, returns the list that the store query with its own limit would:
\* at most limit visitors, the most recent by visit_time.  (The entry under
\* visitors:all was cut to the limit of the call that set it.)
C18_HitRespectsLimit ==
    \A p \in Procs :
        DoneRead(p) /\ req[p].op = "get_visitors" /\ res[p].status = 200 =>
            /\ Len(res[p].body.visitors) <= req[p].limit
            /\ res[p].body.visitors \in Listing(store, req[p].limit)


\* --------------------------------------------------------------------- C19
\* what the store queries of get_visitor and get_stats return on table S
VisitorValues(S, name) == {VisitorCacheDict(r) : r \in RowsByName(S, name)}
StatsValues(S) ==
    {StatsDict(Aggregate(S), top) :
        top \in OrderByDescLimit(S, "visit_count", TopLimit)}

\* every entry under visitor:<name> or stats is a value of its store query
EntriesMatchStore ==
    /\ \A n \in Names :
          CacheHas(VisitorKey(n)) =>
              loads_obj(cache[VisitorKey(n)].text) \in VisitorValues(store, n)
    /\ CacheHas(StatsKey) =>
          loads_stats(cache[StatsKey].text) \in StatsValues(store)

\* a write handler has changed the store and not finished its deletes
Invalidating ==
    \E p \in Procs :
        pc[p] \in {"cv_inv1", "cv_inv2", "cv_inv3", "dv_inv1", "dv_inv2", "dv_inv3"}

\* C19 as stated: requests running one at a time and no cache call failing,
\* in every reachable state each entry under visitor:<name> or stats equals
\* the value of its store query on the current store.  (Between a write's
\* store mutation and its deletes the entries are those of before.)
C19_EntriesEqualStore == EntriesMatchStore

\* C19 amended: the same in every state in which no write handler is between
\* its store mutation and the last of its deletes; and every get_visitor and
\* get_stats returns, apart from the from_cache tag, a value of its store
\* query on the current store.
C19_EntriesEqualStoreBetweenWrites ==
    [][/\ (~Invalidating => EntriesMatchStore)'
       /\ \A p \in Procs :
            pc[p] # "done" /\ pc'[p] = "done" /\ res'[p].status = 200 =>
                /\ req[p].op = "get_visitor" =>
                      SansTag(res'[p].body) \in VisitorValues(store, req[p].name)
                /\ req[p].op = "get_stats" =>
                      SansTag(res'[p].body) \in StatsValues(store)]_vars

\* a get_visitor hits an entry set after a mutation that had deleted the key,
\* and the statistics are cached as well
C19_Witness ==
    \E p \in Procs :
        /\ Hit(p) /\ req[p].op = "get_visitor" /\ res[p].hit[1].after # {}
        /\ SansTag(res[p].body) \in VisitorValues(store, req[p].name)
        /\ CacheHas(StatsKey)

====
